---- MODULE Spec2Model ----
(***************************************************************************)
(* SVSM vTPM service attestation test program (src/src/main.rs).           *)
(*                                                                         *)
(* One invocation of the program is one element of Runs.  main() is a     *)
(* straight line of fallible statements; each statement is one action.    *)
(* A failing expect()/unwrap()/assert_eq!() panics: the panic unwinds      *)
(* main, which drops the locals that own a resource (tmp_dir, context).    *)
(* The configfs-tsm directory, the SVSM behind it, the TPM and the         *)
(* process environment are the environment of the program: they answer    *)
(* each call with one of a small set of outcomes.                          *)
(***************************************************************************)
EXTENDS Integers, Sequences, FiniteSets, TLC

VARIABLES
    pc,             \* pc[r]: the statement run r executes next, or its terminal state
    cli,            \* cli[r]: the parsed --svsm-attribute flag          (line 39)
    tmp_dir,        \* tmp_dir[r]: name of the request context, "" if none (line 44)
    nonce,          \* nonce[r]: the local nonce array                  (line 60)
    outblob,        \* outblob[r]: bytes read from outblob              (line 70)
    manifest,       \* manifest[r]: bytes read from manifestblob        (line 77)
    report,         \* report[r]: the deserialized AttestationReport    (line 82)
    tcti_path,      \* tcti_path[r]: the TCTI device path               (line 104)
    tcti_env,       \* tcti_env[r]: what run r saw of TCTI and /dev/tpmrm0 (lines 104-105)
    context,        \* context[r]: the TPM context: "none", "open", "closed" (line 113)
    ekpub_tmpt_pub, \* ekpub_tmpt_pub[r]: marshalled EK public of the TPM (line 122)
    hash_in,        \* hash_in[r]: nonce || manifest                    (line 140)
    sha512,         \* sha512[r]: Sha512::digest(hash_in)               (line 142)
    configfs,       \* /sys/kernel/config/tsm/report: name -> request context
    report_bin,     \* the file report.bin in the working directory
    tpm_ek,         \* the public area of the EK the TPM of the machine derives
    svsm_manifest,  \* the manifest the SVSM of the machine serves
    trace           \* trace[r]: the operations run r has performed, in order

vars == <<pc, cli, tmp_dir, nonce, outblob, manifest, report, tcti_path, tcti_env, context,
          ekpub_tmpt_pub, hash_in, sha512, configfs, report_bin, tpm_ek, svsm_manifest,
          trace>>

(***************************************************************************)
(* Bounds of the model and constants of the program.                       *)
(***************************************************************************)
\* length of the "unique" field (the RSA modulus) of a modelled EK public key
KeyLen == 1
\* bytes of the attestation report that precede report_data (0x50 in the real layout)
ReportDataOffset == 2
\* bytes of the attestation report that follow report_data
ReportTailLen == 1

\* let nonce: [u8; 64] = [0xff; 64];
NonceLen == 64
NonceByte == 255
\* size of a SHA-512 digest and of AttestationReport.report_data
DigestLen == 64

\* the program invocations of the model
Runs == {1, 2}
\* the names tempdir_in can give a request context
Names == {"tmpA", "tmpB"}
\* the values a key byte takes
KeyBytes == {0, 255}

NoDir == ""

(***************************************************************************)
(* Pure functions.                                                         *)
(***************************************************************************)
Last(s) == s[Len(s)]

\* [0xff; 64]                                                     (line 60)
NonceValue == [i \in 1..NonceLen |-> NonceByte]

\* HashIn with the two parts chained in the other order.
HashIn_Swapped(n, m) == m \o n

\* nonce.to_vec().into_iter().chain(manifest).collect()      (lines 139-140)
HashIn(n, m) == n \o m

\* The contribution of the bytes s[lo..hi] to the hash state: each byte is
\* weighted by its position, so the state depends on every byte and on the
\* order of the bytes.
RECURSIVE Absorb(_, _, _)
Absorb(s, lo, hi) ==
    IF lo > hi THEN 0
    ELSE IF lo = hi THEN ((s[lo] + 1) * ((7 * lo * lo + 131 * lo + 17) % 65521)) % 65521
    ELSE LET mid == (lo + hi) \div 2
         IN  (Absorb(s, lo, mid) + Absorb(s, mid + 1, hi)) % 65521

\* Sha512::digest: a fixed-size digest that depends on every byte of the
\* input, on their order and on the length of the input.  The digest is
\* DigestLen bytes long.                                          (line 142)
\* (The final hash state h is drawn from a one-element set so that it is
\* computed once, not once for each byte of the digest.)
Sha512(s) ==
    LET Output(h) == [i \in 1..DigestLen |->
                        IF i % 2 = 1 THEN ((h % 256) + i) % 256
                                     ELSE ((h \div 256) + i) % 256]
    IN  CHOOSE d \in { Output(h) :
                         h \in {(Absorb(s, 1, Len(s)) + 257 * Len(s) + 7) % 65521} } : TRUE

\* ek::create_ek_public_from_default_template(Rsa, None): the TCG default
\* RSA 2048 EK template, whose unique field is empty.          (lines 90-92)
EkTemplate == [alg |-> 1, bits |-> 2048, unique |-> <<>>]

\* Marshall::marshall of a TPM public area: the algorithm identifier, then
\* the unique field with its length in front of it.          (lines 122-125)
Marshall(pub) == <<pub.alg, Len(pub.unique)>> \o pub.unique

\* The EK public areas a TPM can derive from the template.
DeviceKeys == { [EkTemplate EXCEPT !.unique = u] : u \in [1..KeyLen -> KeyBytes] }

\* The manifests the SVSM can serve: a marshalled EK public, or nothing.
Manifests == { Marshall(k) : k \in DeviceKeys } \cup { <<>> }

\* The fixed-size binary layout of the attestation report.
ReportSize == ReportDataOffset + DigestLen + ReportTailLen
Zeros(n) == [i \in 1..n |-> 0]
MkReport(rd) == Zeros(ReportDataOffset) \o rd \o Zeros(ReportTailLen)

\* bincode::deserialize::<AttestationReport>(&outblob): the fields are read
\* in order from the front of the buffer; a buffer that ends before the
\* last field is an error; bytes past the last field are ignored. (line 82)
Deserialize(raw) ==
    IF Len(raw) < ReportSize
    THEN [ok |-> FALSE, report_data |-> <<>>]
    ELSE [ok |-> TRUE,
          report_data |-> SubSeq(raw, ReportDataOffset + 1, ReportDataOffset + DigestLen)]

NoReport == [ok |-> FALSE, report_data |-> <<>>]

\* What the SVSM puts in outblob for the inputs of a request context.
SvsmModes == {"honest", "zeros", "swapped", "short"}
SvsmReport(mode, inblob, m) ==
    CASE mode = "honest"  -> MkReport(Sha512(inblob \o m))
      [] mode = "zeros"   -> MkReport(Zeros(DigestLen))
      [] mode = "swapped" -> MkReport(Sha512(m \o inblob))
      [] mode = "short"   -> SubSeq(MkReport(Sha512(inblob \o m)), 1, ReportSize - 1)

\* TctiNameConf::from_str accepts these device paths.               (line 114)
ValidTcti == {"device:/dev/tpmrm0", "device:/dev/tpm0", "device:/dev/tpm1"}
\* The values of the TCTI environment variable: unset, or set to a string.
\* std::env::var gives the value only when it is valid Unicode.
TctiEnv == { [set |-> FALSE, unicode |-> TRUE,  val |-> ""],
             [set |-> TRUE,  unicode |-> TRUE,  val |-> "device:/dev/tpm1"],
             [set |-> TRUE,  unicode |-> TRUE,  val |-> "garbage"],
             [set |-> TRUE,  unicode |-> FALSE, val |-> "<not unicode>"] }

\* TctiPath without the fallback to /dev/tpm0.
TctiPath_NoFallback(env, tpmrm0_exists) ==
    IF env.set /\ env.unicode THEN env.val ELSE "device:/dev/tpmrm0"

\* std::env::var("TCTI").unwrap_or_else(...): the value of TCTI when
\* env::var returns it (set, and valid Unicode); otherwise, on either error
\* of env::var, the default for the devices present.        (lines 104-110)
TctiPath(env, tpmrm0_exists) ==
    IF env.set /\ env.unicode THEN env.val
    ELSE IF tpmrm0_exists THEN "device:/dev/tpmrm0" ELSE "device:/dev/tpm0"

\* What the run saw while it chose the path: the variable, and, when the
\* closure ran, whether /dev/tpmrm0 exists.                  (lines 104-105)
Seen(env, tpmrm0_exists) ==
    [var |-> env,
     tpmrm0 |-> IF env.set /\ env.unicode THEN "unqueried"
                ELSE IF tpmrm0_exists THEN "exists" ELSE "missing"]
NoEnv == Seen([set |-> TRUE, unicode |-> TRUE, val |-> ""], FALSE)

(***************************************************************************)
(* State.                                                                  *)
(***************************************************************************)
\* a request context that does not exist, and one that tempdir_in just made
NoCtx == [exists |-> FALSE, svsm |-> "", service_provider |-> "", inblob |-> <<>>,
          service_guid |-> "", outblob |-> <<>>, manifestblob |-> <<>>]
NewCtx == [NoCtx EXCEPT !.exists = TRUE]

NoFile == [exists |-> FALSE, data |-> <<>>]
File(bytes) == [exists |-> TRUE, data |-> bytes]

Ev(op, ok) == [op |-> op, ok |-> ok]

InitRun(started) ==
    /\ pc = [r \in Runs |-> IF r \in started THEN "Idle" ELSE "off"]
    /\ cli = [r \in Runs |-> [svsm_attribute |-> FALSE]]
    /\ tmp_dir = [r \in Runs |-> NoDir]
    /\ nonce = [r \in Runs |-> <<>>]
    /\ outblob = [r \in Runs |-> <<>>]
    /\ manifest = [r \in Runs |-> <<>>]
    /\ report = [r \in Runs |-> NoReport]
    /\ tcti_path = [r \in Runs |-> ""]
    /\ tcti_env = [r \in Runs |-> NoEnv]
    /\ context = [r \in Runs |-> "none"]
    /\ ekpub_tmpt_pub = [r \in Runs |-> <<>>]
    /\ hash_in = [r \in Runs |-> <<>>]
    /\ sha512 = [r \in Runs |-> <<>>]
    /\ configfs = [n \in Names |-> NoCtx]
    /\ report_bin = NoFile
    /\ tpm_ek \in DeviceKeys
    /\ svsm_manifest \in Manifests
    /\ trace = [r \in Runs |-> <<>>]

\* one invocation of the program
Init == InitRun({1})

(***************************************************************************)
(* Panic and normal exit.                                                  *)
(***************************************************************************)
\* Drop of tmp_dir (TempDir): the request context of run r is removed.
\* Runs at line 156 and, for a panic, while main unwinds.
DropTmpDir(r, fs) ==
    IF tmp_dir[r] = NoDir THEN fs ELSE [fs EXCEPT ![tmp_dir[r]] = NoCtx]

\* Drop of context (the TPM context), when main returns or unwinds.
DropContext(r) == IF context[r] = "open" THEN "closed" ELSE context[r]

\* The events of a panic: the message, then the drops of the unwinding.
Unwinding(r) ==
    <<Ev("panic", TRUE)>>
        \o (IF context[r] = "open" THEN <<Ev("drop:context", TRUE)>> ELSE <<>>)
        \o (IF tmp_dir[r] = NoDir THEN <<>> ELSE <<Ev("drop:tmp_dir", TRUE)>>)

\* Panic as it is when a panic aborts the process: nothing is dropped.
Panic_Abort(r, op) ==
    /\ pc' = [pc EXCEPT ![r] = "Failed"]
    /\ trace' = [trace EXCEPT ![r] = @ \o <<Ev(op, FALSE), Ev("panic", TRUE)>>]
    /\ UNCHANGED <<configfs, context>>

\* expect()/unwrap()/assert_eq!() failing in operation op: the run panics,
\* main unwinds and the process exits with a failure status.
Panic(r, op) ==
    /\ pc' = [pc EXCEPT ![r] = "Failed"]
    /\ trace' = [trace EXCEPT ![r] = @ \o <<Ev(op, FALSE)>> \o Unwinding(r)]
    /\ configfs' = DropTmpDir(r, configfs)
    /\ context' = [context EXCEPT ![r] = DropContext(r)]

\* Operation op succeeded; the run goes on with the statement at next.
Done(r, op, next) ==
    /\ pc' = [pc EXCEPT ![r] = next]
    /\ trace' = [trace EXCEPT ![r] = Append(@, Ev(op, TRUE))]

(***************************************************************************)
(* Report Requester: lines 39-79.                                          *)
(***************************************************************************)
\* CreateTempDir with a directory name that is not checked to be new.
CreateTempDir_SharedName(r) ==
    /\ pc[r] = "Idle"
    /\ \E flag \in BOOLEAN :
         /\ cli' = [cli EXCEPT ![r] = [svsm_attribute |-> flag]]
         /\ \/ \E n \in Names :
                 /\ tmp_dir' = [tmp_dir EXCEPT ![r] = n]
                 /\ configfs' = [configfs EXCEPT ![n] = IF @.exists THEN @ ELSE NewCtx]
                 /\ Done(r, "tempdir_in", "provider")
                 /\ UNCHANGED context
            \/ /\ Panic(r, "tempdir_in")
               /\ UNCHANGED tmp_dir
    /\ UNCHANGED <<nonce, outblob, manifest, report, tcti_path, tcti_env, ekpub_tmpt_pub,
                   hash_in, sha512, report_bin, tpm_ek, svsm_manifest>>

\* Cli::parse() and tempdir_in("/sys/kernel/config/tsm/report")  (lines 39-46)
CreateTempDir(r) ==
    /\ pc[r] = "Idle"
    /\ \E flag \in BOOLEAN :
         /\ cli' = [cli EXCEPT ![r] = [svsm_attribute |-> flag]]
         /\ \/ \E n \in Names :
                 /\ ~configfs[n].exists
                 /\ tmp_dir' = [tmp_dir EXCEPT ![r] = n]
                 /\ configfs' = [configfs EXCEPT ![n] = NewCtx]
                 /\ Done(r, "tempdir_in", "provider")
                 /\ UNCHANGED context
            \/ /\ Panic(r, "tempdir_in")
               /\ UNCHANGED tmp_dir
    /\ UNCHANGED <<nonce, outblob, manifest, report, tcti_path, tcti_env, ekpub_tmpt_pub,
                   hash_in, sha512, report_bin, tpm_ek, svsm_manifest>>

\* ProviderWrite with the flag ignored.
ProviderWrite_IgnoreFlag(svsm_attribute) ==
    [attr |-> "service_provider", val |-> "svsm"]

\* The provider selector the program writes for a flag value   (lines 48-58)
ProviderWrite(svsm_attribute) ==
    IF svsm_attribute
    THEN [attr |-> "svsm", val |-> "1"]
    ELSE [attr |-> "service_provider", val |-> "svsm"]

\* fs::write(tmp_dir.path().join(attr), val)
WriteAttr(ctx, attr, val) ==
    CASE attr = "svsm"             -> [ctx EXCEPT !.svsm = val]
      [] attr = "service_provider" -> [ctx EXCEPT !.service_provider = val]
      [] attr = "inblob"           -> [ctx EXCEPT !.inblob = val]
      [] attr = "service_guid"     -> [ctx EXCEPT !.service_guid = val]

\* lines 48-58
WriteProvider(r) ==
    /\ pc[r] = "provider"
    /\ LET w == ProviderWrite(cli[r].svsm_attribute)
       IN  \/ /\ configfs' = [configfs EXCEPT ![tmp_dir[r]] = WriteAttr(@, w.attr, w.val)]
              /\ Done(r, "write:" \o w.attr, "inblob")
              /\ UNCHANGED context
           \/ Panic(r, "write:" \o w.attr)
    /\ UNCHANGED <<cli, tmp_dir, nonce, outblob, manifest, report, tcti_path, tcti_env,
                   ekpub_tmpt_pub, hash_in, sha512, report_bin, tpm_ek, svsm_manifest>>

\* lines 60-62
WriteInblob(r) ==
    /\ pc[r] = "inblob"
    /\ nonce' = [nonce EXCEPT ![r] = NonceValue]
    /\ \/ /\ configfs' = [configfs EXCEPT ![tmp_dir[r]] = WriteAttr(@, "inblob", NonceValue)]
          /\ Done(r, "write:inblob", "service_guid")
          /\ UNCHANGED context
       \/ Panic(r, "write:inblob")
    /\ UNCHANGED <<cli, tmp_dir, outblob, manifest, report, tcti_path, tcti_env,
                   ekpub_tmpt_pub, hash_in, sha512, report_bin, tpm_ek, svsm_manifest>>

\* let attest_vtpm_guid = "c476f1eb-0123-45a5-9641-b4e7dde5bfe3";  (line 64)
attest_vtpm_guid == "c476f1eb-0123-45a5-9641-b4e7dde5bfe3"

\* WriteServiceGuid with the result of fs::write ignored.
WriteServiceGuid_IgnoreError(r) ==
    /\ pc[r] = "service_guid"
    /\ \/ /\ configfs' = [configfs EXCEPT ![tmp_dir[r]] =
                              WriteAttr(@, "service_guid", attest_vtpm_guid)]
          /\ Done(r, "write:service_guid", "outblob")
       \/ /\ pc' = [pc EXCEPT ![r] = "outblob"]
          /\ trace' = [trace EXCEPT ![r] = Append(@, Ev("write:service_guid", FALSE))]
          /\ UNCHANGED configfs
    /\ UNCHANGED <<cli, tmp_dir, nonce, outblob, manifest, report, tcti_path, tcti_env, context,
                   ekpub_tmpt_pub, hash_in, sha512, report_bin, tpm_ek, svsm_manifest>>

\* lines 64-67
WriteServiceGuid(r) ==
    /\ pc[r] = "service_guid"
    /\ \/ /\ configfs' = [configfs EXCEPT ![tmp_dir[r]] =
                              WriteAttr(@, "service_guid", attest_vtpm_guid)]
          /\ Done(r, "write:service_guid", "outblob")
          /\ UNCHANGED context
       \/ Panic(r, "write:service_guid")
    /\ UNCHANGED <<cli, tmp_dir, nonce, outblob, manifest, report, tcti_path, tcti_env,
                   ekpub_tmpt_pub, hash_in, sha512, report_bin, tpm_ek, svsm_manifest>>

\* ReadOutblob with a failed read tried again instead of ending the run.
ReadOutblob_Retry(r) ==
    /\ pc[r] = "outblob"
    /\ \/ \E mode \in SvsmModes :
            LET ctx == configfs[tmp_dir[r]]
                blob == SvsmReport(mode, ctx.inblob, svsm_manifest)
            IN  /\ configfs' = [configfs EXCEPT ![tmp_dir[r]] =
                                    [ctx EXCEPT !.outblob = blob,
                                                !.manifestblob = svsm_manifest]]
                /\ outblob' = [outblob EXCEPT ![r] = blob]
                /\ Done(r, "read:outblob", "report_bin")
       \/ /\ Len(trace[r]) < 6
          /\ pc' = pc
          /\ trace' = [trace EXCEPT ![r] = Append(@, Ev("read:outblob", FALSE))]
          /\ UNCHANGED <<outblob, configfs>>
    /\ UNCHANGED <<cli, tmp_dir, nonce, manifest, report, tcti_path, tcti_env, context,
                   ekpub_tmpt_pub, hash_in, sha512, report_bin, tpm_ek, svsm_manifest>>

\* lines 69-71: the first read of an output makes the SVSM produce the
\* report and the manifest for the inputs the context holds.
ReadOutblob(r) ==
    /\ pc[r] = "outblob"
    /\ \/ \E mode \in SvsmModes :
            LET ctx == configfs[tmp_dir[r]]
                m == svsm_manifest
                blob == SvsmReport(mode, ctx.inblob, m)
            IN  /\ configfs' = [configfs EXCEPT ![tmp_dir[r]] =
                                    [ctx EXCEPT !.outblob = blob, !.manifestblob = m]]
                /\ outblob' = [outblob EXCEPT ![r] = blob]
                /\ Done(r, "read:outblob", "report_bin")
                /\ UNCHANGED context
       \/ /\ Panic(r, "read:outblob")
          /\ UNCHANGED outblob
    /\ UNCHANGED <<cli, tmp_dir, nonce, manifest, report, tcti_path, tcti_env,
                   ekpub_tmpt_pub, hash_in, sha512, report_bin, tpm_ek, svsm_manifest>>

\* What a failed fs::write("report.bin", bytes) can leave behind: the file
\* as it was (it could not be created), or truncated, or partly written.
FailedWrite(old, bytes) ==
    {old, File(<<>>), File(SubSeq(bytes, 1, Len(bytes) \div 2))}

\* WriteReportBin with the result of fs::write ignored.
WriteReportBin_IgnoreError(r) ==
    /\ pc[r] = "report_bin"
    /\ \/ report_bin' = File(outblob[r])
       \/ report_bin' \in FailedWrite(report_bin, outblob[r])
    /\ Done(r, "write:report.bin", "manifestblob")
    /\ UNCHANGED <<cli, tmp_dir, nonce, outblob, manifest, report, tcti_path, tcti_env, context,
                   ekpub_tmpt_pub, hash_in, sha512, configfs, tpm_ek, svsm_manifest>>

\* WriteReportBin with a failed write reported and the run going on.
WriteReportBin_WarnOnly(r) ==
    /\ pc[r] = "report_bin"
    /\ \/ /\ report_bin' = File(outblob[r])
          /\ Done(r, "write:report.bin", "manifestblob")
       \/ /\ report_bin' \in FailedWrite(report_bin, outblob[r])
          /\ pc' = [pc EXCEPT ![r] = "manifestblob"]
          /\ trace' = [trace EXCEPT ![r] = Append(@, Ev("write:report.bin", FALSE))]
    /\ UNCHANGED <<cli, tmp_dir, nonce, outblob, manifest, report, tcti_path, tcti_env,
                   context, ekpub_tmpt_pub, hash_in, sha512, configfs, tpm_ek,
                   svsm_manifest>>

\* lines 73-74
WriteReportBin(r) ==
    /\ pc[r] = "report_bin"
    /\ \/ /\ report_bin' = File(outblob[r])
          /\ Done(r, "write:report.bin", "manifestblob")
          /\ UNCHANGED <<configfs, context>>
       \/ /\ report_bin' \in FailedWrite(report_bin, outblob[r])
          /\ Panic(r, "write:report.bin")
    /\ UNCHANGED <<cli, tmp_dir, nonce, outblob, manifest, report, tcti_path, tcti_env,
                   ekpub_tmpt_pub, hash_in, sha512, tpm_ek, svsm_manifest>>

\* lines 76-79
ReadManifest(r) ==
    /\ pc[r] = "manifestblob"
    /\ \/ /\ manifest' = [manifest EXCEPT ![r] = configfs[tmp_dir[r]].manifestblob]
          /\ Done(r, "read:manifestblob", "deserialize")
          /\ UNCHANGED <<configfs, context>>
       \/ /\ Panic(r, "read:manifestblob")
          /\ UNCHANGED manifest
    /\ UNCHANGED <<cli, tmp_dir, nonce, outblob, report, tcti_path, tcti_env,
                   ekpub_tmpt_pub, hash_in, sha512, report_bin, tpm_ek, svsm_manifest>>

(***************************************************************************)
(* Report Decoder, Reference Key Builder, key transport: lines 81-127.     *)
(***************************************************************************)
\* lines 81-83: bincode::deserialize(&outblob).unwrap()
DecodeReport(r) ==
    /\ pc[r] = "deserialize"
    /\ LET d == Deserialize(outblob[r])
       IN  IF d.ok
           THEN /\ report' = [report EXCEPT ![r] = d]
                /\ Done(r, "deserialize", "ek_template")
                /\ UNCHANGED <<configfs, context>>
           ELSE /\ Panic(r, "deserialize")
                /\ UNCHANGED report
    /\ UNCHANGED <<cli, tmp_dir, nonce, outblob, manifest, tcti_path, tcti_env,
                   ekpub_tmpt_pub, hash_in, sha512, report_bin, tpm_ek, svsm_manifest>>

\* lines 89-96: the template is built, and marshalled for printing
CreateEkTemplate(r) ==
    /\ pc[r] = "ek_template"
    /\ \/ /\ Done(r, "ek_template", "tcti")
          /\ UNCHANGED <<configfs, context>>
       \/ Panic(r, "ek_template")
    /\ UNCHANGED <<cli, tmp_dir, nonce, outblob, manifest, report, tcti_path, tcti_env,
                   ekpub_tmpt_pub, hash_in, sha512, report_bin, tpm_ek, svsm_manifest>>

\* lines 104-116: the device path, TctiNameConf::from_str, Context::new
OpenTpm(r) ==
    /\ pc[r] = "tcti"
    /\ \E env \in TctiEnv, tpmrm0_exists \in BOOLEAN :
         LET path == TctiPath(env, tpmrm0_exists)
         IN  /\ tcti_path' = [tcti_path EXCEPT ![r] = path]
             /\ tcti_env' = [tcti_env EXCEPT ![r] = Seen(env, tpmrm0_exists)]
             /\ \/ /\ path \in ValidTcti
                   /\ pc' = [pc EXCEPT ![r] = "create_ek"]
                   /\ trace' = [trace EXCEPT ![r] = Append(@, Ev("tpm:context", TRUE))]
                   /\ context' = [context EXCEPT ![r] = "open"]
                   /\ UNCHANGED configfs
                \/ Panic(r, "tpm:context")
    /\ UNCHANGED <<cli, tmp_dir, nonce, outblob, manifest, report,
                   ekpub_tmpt_pub, hash_in, sha512, report_bin, tpm_ek, svsm_manifest>>

\* lines 117-127: create_primary under the Endorsement hierarchy from the
\* template, and the marshalling of the public area the TPM returns
CreateEk(r) ==
    /\ pc[r] = "create_ek"
    /\ \/ /\ ekpub_tmpt_pub' = [ekpub_tmpt_pub EXCEPT ![r] = Marshall(tpm_ek)]
          /\ Done(r, "tpm:create_primary", "assert_key")
          /\ UNCHANGED <<configfs, context>>
       \/ /\ Panic(r, "tpm:create_primary")
          /\ UNCHANGED ekpub_tmpt_pub
    /\ UNCHANGED <<cli, tmp_dir, nonce, outblob, manifest, report, tcti_path, tcti_env,
                   hash_in, sha512, report_bin, tpm_ek, svsm_manifest>>

(***************************************************************************)
(* Verifier: lines 129-157.                                                *)
(***************************************************************************)
\* assert_eq!(ekpub_tmpt_pub, manifest)                            (line 130)
KeyMatch(r) == ekpub_tmpt_pub[r] = manifest[r]

\* assert_eq!(sha512.as_slice(), report.report_data)               (line 153)
HashMatch(r) == sha512[r] = report[r].report_data

\* lines 129-131: the assertion, then the message that the keys match
CheckKey(r) ==
    /\ pc[r] = "assert_key"
    /\ IF KeyMatch(r)
       THEN /\ pc' = [pc EXCEPT ![r] = "sha512"]
            /\ trace' = [trace EXCEPT ![r] =
                            @ \o <<Ev("assert:key", TRUE), Ev("print:key_match", TRUE)>>]
            /\ UNCHANGED <<configfs, context>>
       ELSE Panic(r, "assert:key")
    /\ UNCHANGED <<cli, tmp_dir, nonce, outblob, manifest, report, tcti_path, tcti_env,
                   ekpub_tmpt_pub, hash_in, sha512, report_bin, tpm_ek, svsm_manifest>>

\* lines 133-150: the digest is recomputed, and the messages up to the one
\* that says it matches are printed
ComputeHash(r) ==
    /\ pc[r] = "sha512"
    /\ hash_in' = [hash_in EXCEPT ![r] = HashIn(nonce[r], manifest[r])]
    /\ sha512' = [sha512 EXCEPT ![r] = Sha512(hash_in'[r])]
    /\ pc' = [pc EXCEPT ![r] = "assert_hash"]
    /\ trace' = [trace EXCEPT ![r] =
                    @ \o <<Ev("sha512", TRUE), Ev("print:hash_match", TRUE)>>]
    /\ UNCHANGED <<cli, tmp_dir, nonce, outblob, manifest, report, tcti_path, tcti_env, context,
                   ekpub_tmpt_pub, configfs, report_bin, tpm_ek, svsm_manifest>>

\* CheckHash without the assertion.
CheckHash_NoAssert(r) ==
    /\ pc[r] = "assert_hash"
    /\ Done(r, "assert:hash", "drop")
    /\ UNCHANGED <<cli, tmp_dir, nonce, outblob, manifest, report, tcti_path, tcti_env, context,
                   ekpub_tmpt_pub, hash_in, sha512, configfs, report_bin, tpm_ek,
                   svsm_manifest>>

\* CheckHash with the digest computed again after a mismatch.
CheckHash_Retry(r) ==
    /\ pc[r] = "assert_hash"
    /\ IF HashMatch(r)
       THEN Done(r, "assert:hash", "drop")
       ELSE /\ pc' = [pc EXCEPT ![r] = "sha512"]
            /\ trace' = [trace EXCEPT ![r] = SubSeq(@, 1, Len(@) - 2)]
    /\ UNCHANGED <<cli, tmp_dir, nonce, outblob, manifest, report, tcti_path, tcti_env,
                   context, ekpub_tmpt_pub, hash_in, sha512, configfs, report_bin, tpm_ek,
                   svsm_manifest>>

\* lines 152-153
CheckHash(r) ==
    /\ pc[r] = "assert_hash"
    /\ IF HashMatch(r)
       THEN /\ Done(r, "assert:hash", "drop")
            /\ UNCHANGED <<configfs, context>>
       ELSE Panic(r, "assert:hash")
    /\ UNCHANGED <<cli, tmp_dir, nonce, outblob, manifest, report, tcti_path, tcti_env,
                   ekpub_tmpt_pub, hash_in, sha512, report_bin, tpm_ek, svsm_manifest>>

\* lines 155-157: drop(tmp_dir), then main returns and context is dropped
Exit(r) ==
    /\ pc[r] = "drop"
    /\ pc' = [pc EXCEPT ![r] = "Verified"]
    /\ configfs' = DropTmpDir(r, configfs)
    /\ context' = [context EXCEPT ![r] = DropContext(r)]
    /\ trace' = [trace EXCEPT ![r] =
                    @ \o <<Ev("drop:tmp_dir", TRUE), Ev("drop:context", TRUE), Ev("exit", TRUE)>>]
    /\ UNCHANGED <<cli, tmp_dir, nonce, outblob, manifest, report, tcti_path, tcti_env,
                   ekpub_tmpt_pub, hash_in, sha512, report_bin, tpm_ek, svsm_manifest>>

(***************************************************************************)
(* Specifications.                                                         *)
(***************************************************************************)
Step(r) ==
    \/ CreateTempDir(r)
    \/ WriteProvider(r)
    \/ WriteInblob(r)
    \/ WriteServiceGuid(r)
    \/ ReadOutblob(r)
    \/ WriteReportBin(r)
    \/ ReadManifest(r)
    \/ DecodeReport(r)
    \/ CreateEkTemplate(r)
    \/ OpenTpm(r)
    \/ CreateEk(r)
    \/ CheckKey(r)
    \/ ComputeHash(r)
    \/ CheckHash(r)
    \/ Exit(r)

Next == \E r \in Runs : Step(r)

\* one run of the program
Spec == Init /\ [][Next]_vars

\* one run in which every call the program makes returns: a statement
\* that can execute eventually does
FairSpec == Spec /\ \A r \in Runs : WF_vars(Step(r))

\* two runs of the program on the same machine, in any interleaving
InitRuns == InitRun(Runs)
SpecRuns == InitRuns /\ [][Next]_vars

\* two runs on a machine whose SVSM serves the EK public of its own TPM
InitPair == InitRuns /\ svsm_manifest = Marshall(tpm_ek)
SpecPair == InitPair /\ [][Next]_vars

Terminal(r) == pc[r] \in {"Verified", "Failed"}

(***************************************************************************)
(* Properties.                                                             *)
(***************************************************************************)
\* run r performed operation op with outcome ok
Did(r, op, ok) == \E i \in DOMAIN trace[r] : trace[r][i] = Ev(op, ok)
\* run r attempted operation op
Tried(r, op) == \E i \in DOMAIN trace[r] : trace[r][i].op = op
\* the request context of run r, while it exists
Ctx(r) == configfs[tmp_dir[r]]
HasCtx(r) == tmp_dir[r] # NoDir /\ configfs[tmp_dir[r]].exists

\* every stage before the Verifier succeeded
ReachedVerifying(r) == Did(r, "tpm:create_primary", TRUE)
\* check (1): the marshalled EK public of the device is the manifest read
KeyCheckHolds(r) == Marshall(tpm_ek) = manifest[r]
\* check (2): SHA-512(nonce ++ manifest) is report.report_data
HashCheckHolds(r) == Sha512(nonce[r] \o manifest[r]) = report[r].report_data

\* C1: a run whose stages before verification all succeeded ends Verified
\* if and only if the device EK public equals the manifest and
\* SHA-512(nonce ++ manifest) equals report.report_data; otherwise it ends
\* Failed.  No run ends Verified without having reached verification.
C1_VerifiedIffBothChecks ==
    \A r \in Runs :
        Terminal(r) =>
            /\ pc[r] = "Verified" => ReachedVerifying(r)
            /\ ReachedVerifying(r) =>
                   (pc[r] = "Verified" <=> (KeyCheckHolds(r) /\ HashCheckHolds(r)))

C1_Witness ==
    \E r \in Runs :
        /\ pc[r] = "Verified"
        /\ KeyCheckHolds(r) /\ HashCheckHolds(r)
        /\ Did(r, "assert:key", TRUE) /\ Did(r, "assert:hash", TRUE)

\* C2: once the digest is computed, its input is the 64 nonce bytes that
\* were written to inblob of the run's request context followed directly by
\* the bytes read from manifestblob, which are the bytes the key-match
\* check compared; the digest is the SHA-512 of exactly that input.
C2_DigestOverNonceThenManifest ==
    \A r \in Runs :
        pc[r] \in {"assert_hash", "drop"} =>
            /\ HasCtx(r)
            /\ Len(Ctx(r).inblob) = NonceLen
            /\ Len(hash_in[r]) = NonceLen + Len(Ctx(r).manifestblob)
            /\ SubSeq(hash_in[r], 1, NonceLen) = Ctx(r).inblob
            /\ SubSeq(hash_in[r], NonceLen + 1, Len(hash_in[r])) = Ctx(r).manifestblob
            /\ manifest[r] = Ctx(r).manifestblob
            /\ sha512[r] = Sha512(Ctx(r).inblob \o Ctx(r).manifestblob)

C2_Witness ==
    \E r \in Runs :
        /\ pc[r] = "assert_hash"
        /\ Len(manifest[r]) > 0
        /\ hash_in[r] = NonceValue \o manifest[r]

InputWrites == {"write:svsm", "write:service_provider", "write:inblob", "write:service_guid"}
OutputReads == {"read:outblob", "read:manifestblob"}
ProviderSet(ctx) == ctx.svsm # "" \/ ctx.service_provider # ""

\* C3: whenever an output attribute is read, or is about to be read, the
\* provider selector, the nonce and the service GUID have been written to
\* the context, each write before the read; and when one of the input
\* writes has failed, no output attribute is read in that run.
C3_InputsBeforeOutputs ==
    \A r \in Runs :
        /\ pc[r] \in {"outblob", "manifestblob"} =>
               /\ HasCtx(r)
               /\ ProviderSet(Ctx(r))
               /\ Ctx(r).inblob = NonceValue
               /\ Ctx(r).service_guid = attest_vtpm_guid
        /\ \A i \in DOMAIN trace[r] :
               trace[r][i].op \in OutputReads =>
                   /\ \E j \in 1..(i - 1) :
                          trace[r][j].ok /\ trace[r][j].op \in {"write:svsm", "write:service_provider"}
                   /\ \E j \in 1..(i - 1) : trace[r][j] = Ev("write:inblob", TRUE)
                   /\ \E j \in 1..(i - 1) : trace[r][j] = Ev("write:service_guid", TRUE)
        /\ (\E i \in DOMAIN trace[r] : trace[r][i].op \in InputWrites /\ ~trace[r][i].ok) =>
               \A i \in DOMAIN trace[r] : trace[r][i].op \notin OutputReads

C3_Witness ==
    \E r \in Runs :
        /\ Did(r, "read:outblob", TRUE) /\ Did(r, "read:manifestblob", TRUE)
        /\ HasCtx(r)
        /\ Ctx(r).inblob = NonceValue /\ Ctx(r).service_guid = attest_vtpm_guid

\* C4: for either value of the flag, the only provider selector ever
\* written is the one the flag selects ("1" to svsm when it is set, "svsm"
\* to service_provider otherwise); no context holds both; and an output
\* is read only from a context that holds the selected one.
C4_OneProviderForm ==
    /\ \A n \in Names : ~(configfs[n].svsm # "" /\ configfs[n].service_provider # "")
    /\ \A r \in Runs :
        /\ ~(Tried(r, "write:svsm") /\ Tried(r, "write:service_provider"))
        /\ Tried(r, "write:svsm") => cli[r].svsm_attribute
        /\ Tried(r, "write:service_provider") => ~cli[r].svsm_attribute
        /\ HasCtx(r) /\ ProviderSet(Ctx(r)) =>
               IF cli[r].svsm_attribute
               THEN Ctx(r).svsm = "1" /\ Ctx(r).service_provider = ""
               ELSE Ctx(r).service_provider = "svsm" /\ Ctx(r).svsm = ""
        /\ pc[r] \in {"outblob", "manifestblob"} => HasCtx(r) /\ ProviderSet(Ctx(r))
        /\ (\E i \in DOMAIN trace[r] : trace[r][i].op \in OutputReads) =>
               \/ Did(r, "write:svsm", TRUE)
               \/ Did(r, "write:service_provider", TRUE)

C4_Witness ==
    \E r \in Runs :
        /\ cli[r].svsm_attribute
        /\ Did(r, "read:outblob", TRUE)
        /\ HasCtx(r) /\ Ctx(r).svsm = "1" /\ Ctx(r).service_provider = ""

\* the run aborted: a panic unwound main
Aborted(r) == Did(r, "panic", TRUE)

\* C5 (as claimed): after a key mismatch or a hash-binding mismatch the
\* verifier does not abort; it returns normally with a verdict.
C5_MismatchReturnsVerdict ==
    \A r \in Runs :
        (Did(r, "assert:key", FALSE) \/ Did(r, "assert:hash", FALSE)) => ~Aborted(r)

\* C6 (as claimed): whenever a run that reached verification ends with
\* report.report_data different from SHA-512(nonce ++ manifest), the
\* hash-binding check was evaluated and its mismatch reported, whatever the
\* outcome of the key-match check.
C6_HashMismatchAlwaysReported ==
    \A r \in Runs :
        (Terminal(r) /\ ReachedVerifying(r) /\ ~HashCheckHolds(r)) =>
            Did(r, "assert:hash", FALSE)

\* C7 (as claimed): two runs never write the same nonce to inblob.
C7_NonceSingleUse ==
    \A r1 \in Runs : \A r2 \in Runs \ {r1} :
        (Did(r1, "write:inblob", TRUE) /\ Did(r2, "write:inblob", TRUE)) =>
            nonce[r1] # nonce[r2]

\* the operations of the stages that follow the persisting of the report
LaterOps == {"read:manifestblob", "deserialize", "ek_template", "tpm:context",
             "tpm:create_primary", "assert:key", "sha512", "assert:hash"}

\* C8 (as claimed): in every run in which the outblob read succeeded,
\* report.bin holds exactly the bytes read from outblob when the run ends.
C8_PersistedWheneverOutblobRead ==
    \A r \in Runs :
        (Terminal(r) /\ Did(r, "read:outblob", TRUE)) => report_bin = File(outblob[r])

\* C8 (amended): in every run in which the outblob read and the write of
\* report.bin succeeded, report.bin holds exactly the bytes read from
\* outblob, and it does so before any later stage is attempted and after
\* any later stage has failed.
C8_PersistedBeforeLaterStages ==
    \A r \in Runs :
        /\ Did(r, "write:report.bin", TRUE) => report_bin = File(outblob[r])
        /\ (\E i \in DOMAIN trace[r] : trace[r][i].op \in LaterOps) =>
               /\ Did(r, "read:outblob", TRUE)
               /\ report_bin = File(outblob[r])

C8_Witness ==
    \E r \in Runs :
        /\ pc[r] = "Failed"
        /\ Did(r, "assert:key", FALSE)
        /\ Len(outblob[r]) = ReportSize
        /\ report_bin = File(outblob[r])

StageRank(op) ==
    CASE op \in {"tempdir_in", "write:svsm", "write:service_provider", "write:inblob",
                 "write:service_guid", "read:outblob", "write:report.bin",
                 "read:manifestblob"} -> 1
      [] op = "deserialize" -> 2
      [] op = "ek_template" -> 3
      [] op \in {"tpm:context", "tpm:create_primary"} -> 4
      [] op \in {"assert:key", "print:key_match", "sha512", "print:hash_match",
                 "assert:hash"} -> 5
      [] op \in {"panic", "drop:context", "drop:tmp_dir", "exit"} -> 6

\* C10: the operations of a run follow the stage order Requesting, Decoding,
\* BuildingTemplate, DerivingDeviceKey, Verifying, terminal; no operation is
\* performed twice; and after an operation has failed the run is Failed and
\* has done nothing but unwind.
C10_StagesInOrderNoRetry ==
    \A r \in Runs :
        /\ pc[r] \in {"off", "Idle"} <=> trace[r] = <<>>
        /\ \A i \in DOMAIN trace[r] : \A j \in DOMAIN trace[r] :
               i < j =>
                   /\ StageRank(trace[r][i].op) <= StageRank(trace[r][j].op)
                   /\ trace[r][i].op # trace[r][j].op
                   /\ ~trace[r][i].ok => StageRank(trace[r][j].op) = 6
        /\ (\E i \in DOMAIN trace[r] : ~trace[r][i].ok) => pc[r] = "Failed"
        /\ Terminal(r) <=> (trace[r] # <<>> /\ StageRank(Last(trace[r]).op) = 6)
        /\ pc[r] = "Verified" =>
               \A k \in 1..5 : \E i \in DOMAIN trace[r] : StageRank(trace[r][i].op) = k

C10_Witness ==
    \E r \in Runs :
        /\ pc[r] = "Failed"
        /\ Did(r, "deserialize", FALSE)
        /\ Last(trace[r]) = Ev("drop:tmp_dir", TRUE)
        /\ context[r] = "none"

\* the operations of the stages that follow the decoding of the report
AfterDecodeOps == {"ek_template", "tpm:context", "tpm:create_primary", "assert:key",
                   "sha512", "assert:hash"}

\* C11 (as claimed): when the bytes read from outblob are shorter than the
\* report layout, decoding gives an error value and the run does not panic;
\* no structured report is produced and no later stage acts on one.
C11_ShortReportIsErrorValue ==
    \A r \in Runs :
        (Tried(r, "deserialize") /\ Len(outblob[r]) < ReportSize) =>
            /\ ~Aborted(r)
            /\ report[r] = NoReport
            /\ \A i \in DOMAIN trace[r] : trace[r][i].op \notin AfterDecodeOps

Live(r) == tmp_dir[r] # NoDir /\ ~Terminal(r)

\* The request context of run r holds what r itself wrote and nothing else,
\* and what r read is what that context served.
OwnContext(r) ==
    LET c == Ctx(r)
    IN  /\ c.exists
        /\ c.svsm = IF Did(r, "write:svsm", TRUE) THEN "1" ELSE ""
        /\ c.service_provider = IF Did(r, "write:service_provider", TRUE) THEN "svsm" ELSE ""
        /\ c.inblob = IF Did(r, "write:inblob", TRUE) THEN nonce[r] ELSE <<>>
        /\ c.service_guid = IF Did(r, "write:service_guid", TRUE) THEN attest_vtpm_guid ELSE ""
        /\ IF Did(r, "read:outblob", TRUE)
           THEN outblob[r] = c.outblob /\ Len(c.outblob) > 0
           ELSE c.outblob = <<>> /\ c.manifestblob = <<>>
        /\ Did(r, "read:manifestblob", TRUE) => manifest[r] = c.manifestblob

\* C13: with two runs interleaved, the runs that hold a context hold
\* different ones; the context of a run exists until the run itself ends
\* and holds exactly the inputs that run wrote; the report and manifest of
\* a run are those of its own context; and a run that has ended has
\* released its context, which then is gone or newly made for another run.
C13_ContextOwnedByOneRun ==
    /\ \A r1 \in Runs : \A r2 \in Runs \ {r1} :
           (Live(r1) /\ Live(r2)) => tmp_dir[r1] # tmp_dir[r2]
    /\ \A r \in Runs :
           /\ Live(r) => OwnContext(r)
           /\ (Terminal(r) /\ tmp_dir[r] # NoDir) =>
                  \/ ~configfs[tmp_dir[r]].exists
                  \/ \E r2 \in Runs \ {r} : Live(r2) /\ tmp_dir[r2] = tmp_dir[r]

C13_Witness ==
    \E r1 \in Runs : \E r2 \in Runs \ {r1} :
        /\ Live(r1) /\ Live(r2)
        /\ Did(r1, "read:manifestblob", TRUE)
        /\ Did(r2, "read:outblob", TRUE)
        /\ cli[r1].svsm_attribute /\ ~cli[r2].svsm_attribute
        /\ outblob[r1] # outblob[r2]
        /\ OwnContext(r1) /\ OwnContext(r2)

\* the variables of run r are left as they are
RunUnchanged(r) ==
    /\ pc'[r] = pc[r] /\ trace'[r] = trace[r] /\ cli'[r] = cli[r]
    /\ tmp_dir'[r] = tmp_dir[r] /\ nonce'[r] = nonce[r] /\ outblob'[r] = outblob[r]
    /\ manifest'[r] = manifest[r] /\ report'[r] = report[r]
    /\ tcti_path'[r] = tcti_path[r] /\ tcti_env'[r] = tcti_env[r]
    /\ context'[r] = context[r] /\ ekpub_tmpt_pub'[r] = ekpub_tmpt_pub[r]
    /\ hash_in'[r] = hash_in[r] /\ sha512'[r] = sha512[r]

\* C14: when every call returns, a run that has started eventually is
\* Verified or Failed; and a run that is Verified or Failed stays so and
\* changes nothing any more.
C14_RunTerminates ==
    /\ \A r \in Runs : (pc[r] = "Idle") ~> Terminal(r)
    /\ [][\A r \in Runs : Terminal(r) => RunUnchanged(r)]_vars
    /\ [][(\A r \in Runs : pc[r] = "off" \/ Terminal(r)) => UNCHANGED vars]_vars

C14_Witness ==
    \E r \in Runs :
        /\ pc[r] = "Failed"
        /\ Did(r, "tpm:context", FALSE)
        /\ tcti_path[r] = "garbage"

\* C15 (as claimed): the message that the EK public key matches is printed
\* only after the key comparison succeeded, the message that
\* Sha512(nonce||manifest) matches report.report_data only after the hash
\* comparison succeeded; a run that ends in a hash-binding mismatch has not
\* printed the hash-match message.
C15_MessageOnlyAfterCheckPassed ==
    \A r \in Runs :
        /\ \A i \in DOMAIN trace[r] :
               /\ trace[r][i].op = "print:key_match" =>
                      \E j \in 1..(i - 1) : trace[r][j] = Ev("assert:key", TRUE)
               /\ trace[r][i].op = "print:hash_match" =>
                      \E j \in 1..(i - 1) : trace[r][j] = Ev("assert:hash", TRUE)
        /\ Did(r, "assert:hash", FALSE) => ~Tried(r, "print:hash_match")

\* C16: when the write of report.bin fails, the run has read outblob and is
\* Failed; manifestblob has not been read, the report has not been decoded,
\* the TPM has not been accessed and neither check has been evaluated.
C16_ReportBinWriteOnCriticalPath ==
    \A r \in Runs :
        Did(r, "write:report.bin", FALSE) =>
            /\ pc[r] = "Failed"
            /\ Did(r, "read:outblob", TRUE)
            /\ \A i \in DOMAIN trace[r] : trace[r][i].op \notin LaterOps
            /\ manifest[r] = <<>>
            /\ report[r] = NoReport
            /\ context[r] = "none" /\ ekpub_tmpt_pub[r] = <<>>
            /\ hash_in[r] = <<>> /\ sha512[r] = <<>>

C16_Witness ==
    \E r \in Runs :
        /\ pc[r] = "Failed"
        /\ Did(r, "write:report.bin", FALSE)
        /\ Len(outblob[r]) = ReportSize
        /\ report_bin # File(outblob[r])

====
